---- MODULE Spec2Model ----
(***************************************************************************)
(* The policy authority of boulder (package policy): suffixMatch,          *)
(* PSLPlusOne, WillingToIssue and ChallengesFor over the two lookup tables *)
(* PublicSuffixList and Blacklist.                                         *)
(*                                                                         *)
(* A Go string is modelled as a sequence of one-character strings, so that *)
(* strings.Split, strings.Join, strings.ToLower, the two regular           *)
(* expressions and net.ParseIP are computed character by character.        *)
(***************************************************************************)
EXTENDS Integers, Sequences, FiniteSets, TLC

VARIABLES PublicSuffixList, Blacklist, auditLog, stdout, id, op, ret, calls

vars == <<PublicSuffixList, Blacklist, auditLog, stdout, id, op, ret, calls>>

(***************************************************************************)
(* Characters and strings                                                  *)
(***************************************************************************)
LowerLetters == <<"a","b","c","d","e","f","g","h","i","j","k","l","m",
                  "n","o","p","q","r","s","t","u","v","w","x","y","z">>

UpperLetters == <<"A","B","C","D","E","F","G","H","I","J","K","L","M",
                  "N","O","P","Q","R","S","T","U","V","W","X","Y","Z">>

LowerSet == {LowerLetters[k] : k \in 1..26}

UpperSet == {UpperLetters[k] : k \in 1..26}

DigitSet == {"0","1","2","3","4","5","6","7","8","9"}

\* func isDNSCharacter(ch byte) bool
isDNSCharacter(ch) ==
    \/ ch \in LowerSet
    \/ ch \in UpperSet
    \/ ch \in DigitSet
    \/ ch = "." \/ ch = "-"

LowerOf == [ch \in UpperSet |-> LowerLetters[CHOOSE k \in 1..26 : UpperLetters[k] = ch]]

\* A faulty variant of ToLower: the call of strings.ToLower left out.
ToLowerSkipped(s) == s

\* strings.ToLower(domain); the bytes that reach it are ASCII.
ToLower(s) == [k \in 1..Len(s) |-> IF s[k] \in UpperSet THEN LowerOf[s[k]] ELSE s[k]]

\* strings.Split(s, sep) for a one-byte separator: the pieces between the
\* separators, one more than there are separators, never an empty result.
Split(s, sep) ==
    LET seps == {k \in 1..Len(s) : s[k] = sep}
        n == Cardinality(seps) + 1
        cut(j) == IF j = 0 THEN 0
                  ELSE IF j = n THEN Len(s) + 1
                  ELSE CHOOSE k \in seps : Cardinality({d \in seps : d < k}) = j - 1
    IN  [j \in 1..n |-> SubSeq(s, cut(j - 1) + 1, cut(j) - 1)]

RECURSIVE Join(_, _)
\* strings.Join(a, sep)
Join(a, sep) ==
    IF Len(a) = 0 THEN <<>>
    ELSE IF Len(a) = 1 THEN a[1]
    ELSE a[1] \o <<sep>> \o Join(Tail(a), sep)

\* labels[i:] with Go's 0-based i.
SliceFrom(labels, i) == SubSeq(labels, i + 1, Len(labels))

(***************************************************************************)
(* The policy authority                                                    *)
(***************************************************************************)
\* A faulty variant of maxLabels: the limit off by one.
maxLabelsOffByOne == 10 - 1

maxLabels == 10

\* core.IdentifierDNS
IdentifierDNS == "dns"

\* The error values of the package; nil is Go's nil error.
nil == "nil"

InvalidIdentifierError == "InvalidIdentifierError"

SyntaxError == "SyntaxError"

NonPublicError == "NonPublicError"

BlacklistedError == "BlacklistedError"

ErrOneLabel == "String has only one label"

ErrNoPublicSuffix == "String does not have a public suffix"

ErrUnreachable == "Reached unreachable point in PSLPlusOne"

IsAlnum(ch) == ch \in LowerSet \/ ch \in UpperSet \/ ch \in DigitSet

\* dnsLabelRegexp.MatchString(label): ^[a-zA-Z0-9][a-zA-Z0-9-]{0,62}$
dnsLabelRegexp(label) ==
    /\ Len(label) >= 1
    /\ IsAlnum(label[1])
    /\ Len(label) - 1 <= 62
    /\ \A k \in 2..Len(label) : IsAlnum(label[k]) \/ label[k] = "-"

\* punycodeRegexp.MatchString(label): ^xn--
punycodeRegexp(label) ==
    /\ Len(label) >= 4
    /\ SubSeq(label, 1, 4) = <<"x", "n", "-", "-">>

DigitValue(ch) == CHOOSE n \in 0..9 : <<"0","1","2","3","4","5","6","7","8","9">>[n + 1] = ch

RECURSIVE dtoi(_, _, _)
\* The decimal value of the digit string s, saturating above one byte as
\* net.dtoi saturates at its own limit: the caller only compares with 0xFF.
dtoi(s, k, n) ==
    IF k > Len(s) THEN n
    ELSE IF n > 255 THEN n
    ELSE dtoi(s, k + 1, 10 * n + DigitValue(s[k]))

\* net.ParseIP(domain) # nil, for the strings that reach it: every byte has
\* passed isDNSCharacter, so there is no ':' and only the dotted-decimal
\* IPv4 form can parse: four fields, each a non-empty decimal number of at
\* most 0xFF.
ParseIP(s) ==
    LET fields == Split(s, ".")
    IN  /\ Len(fields) = 4
        /\ \A f \in 1..4 :
              /\ Len(fields[f]) >= 1
              /\ \A k \in 1..Len(fields[f]) : fields[f][k] \in DigitSet
              /\ dtoi(fields[f], 1, 0) <= 255

\* suffixSet[domain] of a map[string]bool whose entries are all true.
MapIndex(suffixSet, domain) == domain \in suffixSet

\* A faulty variant of suffixMatchFrom: every match is gated on i > 0, which
\* loses the exact match of the blacklist.
RECURSIVE suffixMatchAlwaysProper(_, _, _, _)
suffixMatchAlwaysProper(labels, suffixSet, properSuffix, i) ==
    IF i >= Len(labels) THEN FALSE
    ELSE IF MapIndex(suffixSet, Join(SliceFrom(labels, i), "."))
         THEN i > 0
         ELSE suffixMatchAlwaysProper(labels, suffixSet, properSuffix, i + 1)

\* A faulty variant of suffixMatchFrom: no match is gated on properSuffix,
\* which accepts a name that is itself a public suffix.
RECURSIVE suffixMatchNeverProper(_, _, _, _)
suffixMatchNeverProper(labels, suffixSet, properSuffix, i) ==
    IF i >= Len(labels) THEN FALSE
    ELSE IF MapIndex(suffixSet, Join(SliceFrom(labels, i), "."))
         THEN TRUE
         ELSE suffixMatchNeverProper(labels, suffixSet, properSuffix, i + 1)

\* A faulty variant of suffixMatchFrom: a whole-name match is skipped and
\* the scan goes on, which accepts a public suffix lying under a shorter one.
RECURSIVE suffixMatchSkipWhole(_, _, _, _)
suffixMatchSkipWhole(labels, suffixSet, properSuffix, i) ==
    IF i >= Len(labels) THEN FALSE
    ELSE IF /\ MapIndex(suffixSet, Join(SliceFrom(labels, i), "."))
            /\ (~properSuffix \/ i > 0)
         THEN TRUE
         ELSE suffixMatchSkipWhole(labels, suffixSet, properSuffix, i + 1)

\* The loop of suffixMatch from index i on (for i := range labels).
RECURSIVE suffixMatchFrom(_, _, _, _)
suffixMatchFrom(labels, suffixSet, properSuffix, i) ==
    IF i >= Len(labels) THEN FALSE
    ELSE IF MapIndex(suffixSet, Join(SliceFrom(labels, i), "."))
         THEN ~properSuffix \/ i > 0
         ELSE suffixMatchFrom(labels, suffixSet, properSuffix, i + 1)

\* func suffixMatch(labels []string, suffixSet map[string]bool, properSuffix bool) bool
suffixMatch(labels, suffixSet, properSuffix) ==
    suffixMatchFrom(labels, suffixSet, properSuffix, 0)

\* fmt.Println("i =", i)
PrintLine(i) == <<"i =", i>>

\* A faulty variant of scanStart: the scan starts at the whole name.
scanStartWhole(labels) == 0

\* i := len(labels) - 2
scanStart(labels) == Len(labels) - 2

\* A faulty variant of scanContinues: the scan stops one index early.
scanStopsEarly(i) == i > 0

\* i >= 0
scanContinues(i) == i >= 0

\* The loop of PSLPlusOne from index i on; out is what it has printed.
RECURSIVE pslScan(_, _, _, _)
pslScan(labels, psl, i, out) ==
    IF ~scanContinues(i)
    THEN [val |-> <<>>, err |-> ErrUnreachable, out |-> out]
    ELSE LET printed == Append(out, PrintLine(i))
         IN  IF suffixMatch(SliceFrom(labels, i), psl, TRUE)
             THEN [val |-> Join(SliceFrom(labels, i), "."), err |-> nil, out |-> printed]
             ELSE pslScan(labels, psl, i - 1, printed)

\* func (pa PolicyAuthorityImpl) PSLPlusOne(domain string) (string, error),
\* with the lines it prints.
PSLPlusOne(psl, domain) ==
    LET labels == Split(domain, ".")
    IN  IF Len(labels) < 2
        THEN [val |-> <<>>, err |-> ErrOneLabel, out |-> <<>>]
        ELSE IF ~suffixMatch(labels, psl, TRUE)
        THEN [val |-> <<>>, err |-> ErrNoPublicSuffix, out |-> <<>>]
        ELSE pslScan(labels, psl, scanStart(labels), <<>>)

\* The per-label checks of WillingToIssue.
LabelOK(label) ==
    /\ ~(Len(label) < 1 \/ Len(label) > 63)
    /\ dnsLabelRegexp(label)
    /\ ~punycodeRegexp(label)

\* A faulty variant of PolicyGates: the two table gates in the other order.
PolicyGatesSwapped(labels, psl, bl) ==
    IF suffixMatch(labels, bl, FALSE) THEN BlacklistedError
    ELSE IF ~suffixMatch(labels, psl, TRUE) THEN NonPublicError
    ELSE nil

\* The two table gates of WillingToIssue.
PolicyGates(labels, psl, bl) ==
    IF ~suffixMatch(labels, psl, TRUE) THEN NonPublicError
    ELSE IF suffixMatch(labels, bl, FALSE) THEN BlacklistedError
    ELSE nil

\* WillingToIssue up to the end of its loop over the labels: the check of the
\* identifier type and the syntax checks, nil when all of them pass.
SyntaxGates(ident) ==
    IF ident.Type # IdentifierDNS THEN InvalidIdentifierError
    ELSE IF \E k \in 1..Len(ident.Value) : ~isDNSCharacter(ident.Value[k])
    THEN SyntaxError
    ELSE LET domain == ToLower(ident.Value)
         IN  IF Len(domain) > 255 THEN SyntaxError
             ELSE IF ParseIP(domain) THEN SyntaxError
             ELSE LET labels == Split(domain, ".")
                  IN  IF Len(labels) > maxLabels \/ Len(labels) < 2
                      THEN SyntaxError
                      ELSE IF \E k \in 1..Len(labels) : ~LabelOK(labels[k])
                      THEN SyntaxError
                      ELSE nil

\* func (pa PolicyAuthorityImpl) WillingToIssue(id core.AcmeIdentifier) error
WillingToIssue(psl, bl, ident) ==
    IF SyntaxGates(ident) # nil THEN SyntaxGates(ident)
    ELSE PolicyGates(Split(ToLower(ident.Value), "."), psl, bl)

\* The challenge descriptors of package core.
SimpleHTTPChallenge == "simpleHttp"

DvsniChallenge == "dvsni"

DNSChallenge == "dns"

\* func (pa PolicyAuthorityImpl) ChallengesFor(identifier core.AcmeIdentifier)
ChallengesFor(identifier) ==
    [challenges |-> <<SimpleHTTPChallenge, DvsniChallenge, DNSChallenge>>,
     combinations |-> <<<<0>>, <<1>>, <<2>>>>]

(***************************************************************************)
(* Inputs: the tables the authority is constructed with and the            *)
(* identifiers it is asked about.                                          *)
(***************************************************************************)
MaxLen == 4

MaxNameLabels == 4

MaxStdout == 2

\* The bytes of the exhaustively enumerated values: a lower-case letter, an
\* upper-case letter that folds to another one, the two separators of the
\* DNS class and a byte outside it.
Alphabet == {"a", "B", ".", "-", "_"}

CharStrings == UNION {[1..n -> Alphabet] : n \in 0..MaxLen}

Rep(ch, n) == [k \in 1..n |-> ch]

RECURSIVE NamesOf(_)
\* The dotted names of exactly n labels, each label a or b.
NamesOf(n) ==
    IF n = 1 THEN {<<"a">>, <<"b">>}
    ELSE {l \o <<".">> \o rest : l \in {<<"a">>, <<"b">>}, rest \in NamesOf(n - 1)}

LabelStrings == UNION {NamesOf(n) : n \in 1..MaxNameLabels}

\* n labels "a" joined by dots.
DottedA(n) == [k \in 1..(2 * n - 1) |-> IF k % 2 = 1 THEN "a" ELSE "."]

L63 == Rep("a", 63)

\* Values at the limits of the syntax rules, IP literals and punycode.
EdgeStrings ==
    { DottedA(9), DottedA(10), DottedA(11),
      L63 \o <<".", "a">>,
      Rep("a", 64) \o <<".", "a">>,
      Rep("B", 63) \o <<".", "a">>,
      L63 \o <<".">> \o L63 \o <<".">> \o L63 \o <<".">> \o Rep("a", 61) \o <<".", "a">>,
      L63 \o <<".">> \o L63 \o <<".">> \o L63 \o <<".">> \o Rep("a", 62) \o <<".", "a">>,
      <<"1", ".", "2", ".", "3", ".", "4">>,
      <<"2", "5", "5", ".", "2", ".", "3", ".", "4">>,
      <<"2", "5", "6", ".", "2", ".", "3", ".", "4">>,
      <<"1", ".", "2", ".", "3">>,
      <<"1", ".", "2", ".", "3", ".", "4", ".", "5">>,
      <<"1", ".", "2", ".", "3", ".", "a">>,
      <<"1", ".", "a">>,
      <<":", ":", "1">>,
      <<"x", "n", "-", "-", "a", ".", "a">>,
      <<"X", "N", "-", "-", "a", ".", "a">>,
      <<"X", "n", "-", "-", "a", ".", "a">>,
      <<"b", ".", "x", "n", "-", "-", "a", ".", "a">>,
      <<"x", "n", "-", "a", ".", "a">>,
      <<"a", "x", "n", "-", "-", ".", "a">>,
      <<"a", "-", "-", "b", ".", "a">>,
      <<"a", " ", ".", "a">> }

Values == CharStrings \cup LabelStrings \cup EdgeStrings

IdentifierTypes == {IdentifierDNS, "ip"}

Identifiers == [Type : IdentifierTypes, Value : Values]

\* The tables hold lower-case keys, as their loader guarantees.
SuffixKeys == {<<"a">>, <<"b", ".", "a">>}

Tables == SUBSET SuffixKeys

NoCall == [err |-> "none", val |-> <<>>]

(***************************************************************************)
(* One caller: the state after NewPolicyAuthorityImpl, then calls on the   *)
(* identifier id.                                                          *)
(***************************************************************************)
Procs == {1, 2}

\* A caller that is in no call.
Idle ==
    [pc |-> "idle", fn |-> "none", arg |-> [Type |-> "none", Value |-> <<>>],
     stage |-> "none", whole |-> <<>>, labels |-> <<>>, i |-> 0, scan |-> 0,
     ret |-> NoCall]

\* func NewPolicyAuthorityImpl() *PolicyAuthorityImpl
Init ==
    /\ PublicSuffixList \in Tables
    /\ Blacklist \in Tables
    /\ auditLog = <<"Policy Authority Starting">>
    /\ stdout = <<>>
    /\ id \in Identifiers
    /\ op = "none"
    /\ ret = NoCall
    /\ calls = [p \in Procs |-> Idle]

CallWillingToIssue ==
    /\ op' = "WillingToIssue"
    /\ ret' = [err |-> WillingToIssue(PublicSuffixList, Blacklist, id), val |-> <<>>]
    /\ UNCHANGED <<PublicSuffixList, Blacklist, auditLog, stdout, id, calls>>

CallPSLPlusOne ==
    /\ Len(stdout) < MaxStdout
    /\ LET r == PSLPlusOne(PublicSuffixList, id.Value)
       IN  /\ op' = "PSLPlusOne"
           /\ ret' = [err |-> r.err, val |-> r.val]
           /\ stdout' = stdout \o r.out
    /\ UNCHANGED <<PublicSuffixList, Blacklist, auditLog, id, calls>>

CallChallengesFor ==
    /\ op' = "ChallengesFor"
    /\ ret' = [err |-> nil, val |-> ChallengesFor(id)]
    /\ UNCHANGED <<PublicSuffixList, Blacklist, auditLog, stdout, id, calls>>

Next ==
    \/ CallWillingToIssue
    \/ CallPSLPlusOne
    \/ CallChallengesFor

Spec == Init /\ [][Next]_vars

(***************************************************************************)
(* The vocabulary of the properties, stated on the value itself and not on *)
(* the operators above: a label starts at the first byte and after every   *)
(* dot, and the label-wise suffix labels[i:] is the rest of the value from *)
(* the start of label i.                                                   *)
(***************************************************************************)
LowerCased(v) == [k \in 1..Len(v) |-> IF v[k] \in UpperSet THEN LowerOf[v[k]] ELSE v[k]]

UpperOf == [ch \in LowerSet |-> UpperLetters[CHOOSE k \in 1..26 : LowerLetters[k] = ch]]

UpperCased(v) == [k \in 1..Len(v) |-> IF v[k] \in LowerSet THEN UpperOf[v[k]] ELSE v[k]]

LabelStarts(v) == {1} \cup {k + 1 : k \in {d \in 1..Len(v) : v[d] = "."}}

LabelEnd(v, b) ==
    IF \E d \in b..Len(v) : v[d] = "."
    THEN (CHOOSE d \in b..Len(v) : v[d] = "." /\ \A e \in b..(d - 1) : v[e] # ".") - 1
    ELSE Len(v)

SuffixAt(v, b) == SubSeq(v, b, Len(v))

\* Some suffix labels[i:], i >= 0, of v is in the table.
AnySuffixIn(v, table) == \E b \in LabelStarts(v) : SuffixAt(v, b) \in table

\* Some suffix labels[i:], i >= 1, of v is in the table.
ParentSuffixIn(v, table) == \E b \in LabelStarts(v) : b > 1 /\ SuffixAt(v, b) \in table

\* v is not itself in the table and some labels[i:], i >= 1, is.
ProperlyUnder(v, table) == v \notin table /\ ParentSuffixIn(v, table)

Alnum == LowerSet \cup UpperSet \cup DigitSet

RECURSIVE DecimalOf(_, _, _)
\* The number the digits v[b..e] write.
DecimalOf(v, b, e) ==
    IF e < b THEN 0 ELSE 10 * DecimalOf(v, b, e - 1) + DigitValue(v[e])

\* Four dot-separated decimal numbers of at most 255.
IsIPv4Literal(v) ==
    /\ Cardinality(LabelStarts(v)) = 4
    /\ \A b \in LabelStarts(v) :
          LET e == LabelEnd(v, b)
          IN  /\ e >= b
              /\ \A k \in b..e : v[k] \in DigitSet
              /\ DecimalOf(v, b, e) <= 255

\* The syntax rules of a DNS identifier value. An IPv6 literal holds a colon
\* and so already breaks the rule on bytes.
SyntaxRulesHold(value) ==
    LET v == LowerCased(value)
    IN  /\ \A k \in 1..Len(value) : value[k] \in Alnum \cup {".", "-"}
        /\ Len(value) <= 255
        /\ ~IsIPv4Literal(v)
        /\ Cardinality(LabelStarts(v)) \in 2..10
        /\ \A b \in LabelStarts(v) :
              LET e == LabelEnd(v, b)
              IN  /\ (e - b + 1) \in 1..63
                  /\ v[b] \in Alnum
                  /\ \A k \in (b + 1)..e : v[k] \in Alnum \cup {"-"}
                  /\ ~(e - b + 1 >= 4 /\ SubSeq(v, b, b + 3) = <<"x", "n", "-", "-">>)

AfterWillingToIssue == op = "WillingToIssue"

AfterPSLPlusOne == op = "PSLPlusOne"

DNSValue == LowerCased(id.Value)

(***************************************************************************)
(* Properties of WillingToIssue and PSLPlusOne                             *)
(***************************************************************************)
\* C1: for a DNS identifier, when some label-wise suffix labels[i:], i >= 0,
\* of the lower-cased value is in the Blacklist, WillingToIssue does not
\* return nil, and it returns BlacklistedError when the value also passes the
\* syntax rules and the public-suffix gate; a value none of whose label-wise
\* suffixes is in the Blacklist is not reported blacklisted.
C1_BlacklistBlocksDomainAndSubdomains ==
    (AfterWillingToIssue /\ id.Type = IdentifierDNS) =>
        /\ AnySuffixIn(DNSValue, Blacklist) => ret.err # nil
        /\ ( /\ AnySuffixIn(DNSValue, Blacklist)
             /\ SyntaxRulesHold(id.Value)
             /\ ProperlyUnder(DNSValue, PublicSuffixList) ) => ret.err = BlacklistedError
        /\ ~AnySuffixIn(DNSValue, Blacklist) => ret.err # BlacklistedError

\* The exact blacklisted domain, written with an upper-case letter, is refused.
C1_Witness ==
    /\ AfterWillingToIssue
    /\ id.Value = <<"B", ".", "a">>
    /\ DNSValue \in Blacklist
    /\ ret.err = BlacklistedError

\* C2: WillingToIssue returns nil only if the lower-cased value is not itself
\* in the Public Suffix Set and some suffix labels[i:], i >= 1, is.
C2_NilOnlyProperlyUnderPublicSuffix ==
    (AfterWillingToIssue /\ ret.err = nil) =>
        /\ DNSValue \notin PublicSuffixList
        /\ ParentSuffixIn(DNSValue, PublicSuffixList)

\* A name accepted under a public suffix of two labels.
C2_Witness ==
    /\ AfterWillingToIssue
    /\ ret.err = nil
    /\ \E b \in LabelStarts(DNSValue) :
          /\ b > 1
          /\ SuffixAt(DNSValue, b) \in PublicSuffixList
          /\ Cardinality(LabelStarts(SuffixAt(DNSValue, b))) = 2

\* C3: the outcome of WillingToIssue is the outcome for the same value
\* written all in lower case and for the same value written all in upper case.
C3_CaseInsensitive ==
    AfterWillingToIssue =>
        /\ ret.err = WillingToIssue(PublicSuffixList, Blacklist,
                                    [id EXCEPT !.Value = LowerCased(id.Value)])
        /\ ret.err = WillingToIssue(PublicSuffixList, Blacklist,
                                    [id EXCEPT !.Value = UpperCased(id.Value)])

\* A blacklisted name written with an upper-case letter is still refused.
C3_Witness ==
    /\ AfterWillingToIssue
    /\ id.Value # LowerCased(id.Value)
    /\ ret.err = BlacklistedError

\* The first gate that fails, in the order type, syntax, public suffix,
\* blacklist.
FirstFailingGate ==
    IF id.Type # IdentifierDNS THEN InvalidIdentifierError
    ELSE IF ~SyntaxRulesHold(id.Value) THEN SyntaxError
    ELSE IF ~ProperlyUnder(DNSValue, PublicSuffixList) THEN NonPublicError
    ELSE IF AnySuffixIn(DNSValue, Blacklist) THEN BlacklistedError
    ELSE nil

\* C4: WillingToIssue reports the first failing gate in the order identifier
\* type, syntax, public suffix, blacklist, and nil when none fails.
C4_GatesInOrder == AfterWillingToIssue => ret.err = FirstFailingGate

\* A value that fails the public-suffix gate and is in the Blacklist.
C4_Witness ==
    /\ AfterWillingToIssue
    /\ ret.err = NonPublicError
    /\ AnySuffixIn(DNSValue, Blacklist)

\* Values at the limits that pass the syntax stage: 2 labels, 10 labels, a
\* label of 63 bytes, 255 bytes in all.
AtTheLimits ==
    { <<"a", ".", "a">>,
      DottedA(10),
      Rep("a", 63) \o <<".", "a">>,
      Rep("a", 63) \o <<".">> \o Rep("a", 63) \o <<".">> \o Rep("a", 63)
          \o <<".">> \o Rep("a", 61) \o <<".", "a">> }

\* Values just past the limits: 1 label, 11 labels, an empty label, a label
\* of 64 bytes, 256 bytes in all.
PastTheLimits ==
    { <<"a">>,
      DottedA(11),
      <<>>, <<".", "a">>, <<"a", ".">>, <<"a", ".", ".", "a">>,
      Rep("a", 64) \o <<".", "a">>,
      Rep("a", 63) \o <<".">> \o Rep("a", 63) \o <<".">> \o Rep("a", 63)
          \o <<".">> \o Rep("a", 62) \o <<".", "a">> }

\* C5: for a DNS identifier, WillingToIssue returns SyntaxError if and only if
\* the value breaks a syntax rule; the values at the limits (2 and 10 labels,
\* a label of 63 bytes, 255 bytes in all) pass and the values just past them
\* do not.
C5_SyntaxErrorIffRuleBroken ==
    (AfterWillingToIssue /\ id.Type = IdentifierDNS) =>
        /\ ret.err = SyntaxError <=> ~SyntaxRulesHold(id.Value)
        /\ id.Value \in AtTheLimits => ret.err # SyntaxError
        /\ id.Value \in PastTheLimits => ret.err = SyntaxError

\* The value of exactly 10 labels passes the syntax stage.
C5_Witness ==
    /\ AfterWillingToIssue
    /\ id.Type = IdentifierDNS
    /\ Cardinality(LabelStarts(id.Value)) = 10
    /\ ret.err \in {nil, NonPublicError, BlacklistedError}

\* C6 as claimed: for a DNS identifier whose value passes the syntax rules,
\* WillingToIssue returns NonPublicError if and only if no suffix labels[i:],
\* i >= 1, of the lower-cased value is in the Public Suffix Set.
C6_NonPublicIffNoParentSuffix ==
    (AfterWillingToIssue /\ id.Type = IdentifierDNS /\ SyntaxRulesHold(id.Value)) =>
        (ret.err = NonPublicError <=> ~ParentSuffixIn(DNSValue, PublicSuffixList))

\* C6 amended: for a DNS identifier whose value passes the syntax rules,
\* WillingToIssue returns NonPublicError if and only if the lower-cased value
\* is itself in the Public Suffix Set or no suffix labels[i:], i >= 1, is.
C6_NonPublicIffNotProperlyUnder ==
    (AfterWillingToIssue /\ id.Type = IdentifierDNS /\ SyntaxRulesHold(id.Value)) =>
        (ret.err = NonPublicError <=>
            (DNSValue \in PublicSuffixList \/ ~ParentSuffixIn(DNSValue, PublicSuffixList)))

\* A public suffix of two labels that lies under a public suffix of one.
C6_Witness ==
    /\ AfterWillingToIssue
    /\ id.Type = IdentifierDNS
    /\ SyntaxRulesHold(id.Value)
    /\ DNSValue \in PublicSuffixList
    /\ ParentSuffixIn(DNSValue, PublicSuffixList)
    /\ ret.err = NonPublicError

\* The start of the label after the one starting at b.
NextStart(v, b) == LabelEnd(v, b) + 2

\* C7: when PSLPlusOne succeeds, its result is a suffix labels[i:] of the
\* input with labels[i+1:] in the Public Suffix Set and labels[i:] not in it,
\* and no shorter suffix of two labels or more is properly under a public
\* suffix.
C7_ShortestSuffixPlusOneLabel ==
    (AfterPSLPlusOne /\ ret.err = nil) =>
        \E b \in LabelStarts(id.Value) :
            /\ ret.val = SuffixAt(id.Value, b)
            /\ NextStart(id.Value, b) \in LabelStarts(id.Value)
            /\ SuffixAt(id.Value, NextStart(id.Value, b)) \in PublicSuffixList
            /\ SuffixAt(id.Value, b) \notin PublicSuffixList
            /\ \A c \in LabelStarts(id.Value) :
                  (c > b /\ NextStart(id.Value, c) \in LabelStarts(id.Value))
                      => ~ProperlyUnder(SuffixAt(id.Value, c), PublicSuffixList)

\* A name of three labels or more cut down to its registrable domain.
C7_Witness ==
    /\ AfterPSLPlusOne
    /\ ret.err = nil
    /\ ret.val # id.Value
    /\ stdout # <<>>

\* C10: PSLPlusOne never returns the unreachable-point error; it fails exactly
\* when the input has fewer than 2 labels or is not properly under a public
\* suffix.
C10_ScanAlwaysFinds ==
    AfterPSLPlusOne =>
        /\ ret.err # ErrUnreachable
        /\ ret.err # nil <=>
              ( \/ Cardinality(LabelStarts(id.Value)) < 2
                \/ ~ProperlyUnder(id.Value, PublicSuffixList) )

\* The scan finds its match only at i = 0: the whole name is the result.
C10_Witness ==
    /\ AfterPSLPlusOne
    /\ ret.err = nil
    /\ ret.val = id.Value
    /\ Cardinality(LabelStarts(id.Value)) >= 3

\* C8: a call leaves standard output, the log and the two tables as they
\* were.
C8_NoSideEffect ==
    [][ /\ stdout' = stdout
        /\ auditLog' = auditLog
        /\ PublicSuffixList' = PublicSuffixList
        /\ Blacklist' = Blacklist ]_vars

(***************************************************************************)
(* Concurrent callers on one PolicyAuthorityImpl, with no synchronization. *)
(* A step of a caller runs its code up to and including its next access to *)
(* what the callers share: an index expression on one of the two maps, or  *)
(* a line written to standard output.                                      *)
(***************************************************************************)
ConcValues ==
    { <<"a">>, <<"B", ".", "a">>, <<"a", ".", "b", ".", "a">>, <<"a", "_", ".", "a">> }

ConcIdentifiers == [Type : IdentifierTypes, Value : ConcValues]

\* A faulty variant of TableAfterIndex: the index expression stores the key
\* it looked up.
TableAfterIndexStoring(suffixSet, domain) == suffixSet \cup {domain}

\* The map after the index expression suffixSet[domain]: reading a Go map
\* stores nothing in it.
TableAfterIndex(suffixSet, domain) == suffixSet

\* The caller c at its return statement.
Returning(c, result) ==
    [c EXCEPT !.pc = "done", !.stage = "none", !.whole = <<>>, !.labels = <<>>,
              !.i = 0, !.scan = 0, !.ret = result]

\* The caller c entering suffixMatch(labels, ...) for the given stage.
Matching(c, stage, labels) ==
    [c EXCEPT !.pc = "match", !.stage = stage, !.labels = labels, !.i = 0]

\* The caller c when its call of suffixMatch returns r.
AfterMatch(c, r) ==
    CASE c.stage = "wti_psl" ->
            IF ~r THEN Returning(c, [err |-> NonPublicError, val |-> <<>>])
            ELSE Matching(c, "wti_bl", c.whole)
      [] c.stage = "wti_bl" ->
            IF r THEN Returning(c, [err |-> BlacklistedError, val |-> <<>>])
            ELSE Returning(c, [err |-> nil, val |-> <<>>])
      [] c.stage = "ppo_pre" ->
            IF ~r THEN Returning(c, [err |-> ErrNoPublicSuffix, val |-> <<>>])
            ELSE [c EXCEPT !.pc = "scan", !.stage = "ppo_scan", !.labels = <<>>,
                           !.i = 0, !.scan = scanStart(c.whole)]
      [] c.stage = "ppo_scan" ->
            IF r THEN Returning(c, [err |-> nil,
                                    val |-> Join(SliceFrom(c.whole, c.scan), ".")])
            ELSE [c EXCEPT !.pc = "scan", !.labels = <<>>, !.i = 0, !.scan = c.scan - 1]

\* A call of WillingToIssue up to its first call of suffixMatch.
BeginWillingToIssue(p, ident) ==
    /\ calls[p].pc = "idle"
    /\ LET c == [calls[p] EXCEPT !.fn = "WillingToIssue", !.arg = ident]
           whole == Split(ToLower(ident.Value), ".")
       IN  calls' = [calls EXCEPT ![p] =
               IF SyntaxGates(ident) # nil
               THEN Returning(c, [err |-> SyntaxGates(ident), val |-> <<>>])
               ELSE Matching([c EXCEPT !.whole = whole], "wti_psl", whole)]
    /\ UNCHANGED <<PublicSuffixList, Blacklist, auditLog, stdout, id, op, ret>>

\* A call of PSLPlusOne up to its first call of suffixMatch.
BeginPSLPlusOne(p, ident) ==
    /\ calls[p].pc = "idle"
    /\ LET c == [calls[p] EXCEPT !.fn = "PSLPlusOne", !.arg = ident]
           whole == Split(ident.Value, ".")
       IN  calls' = [calls EXCEPT ![p] =
               IF Len(whole) < 2
               THEN Returning(c, [err |-> ErrOneLabel, val |-> <<>>])
               ELSE Matching([c EXCEPT !.whole = whole], "ppo_pre", whole)]
    /\ UNCHANGED <<PublicSuffixList, Blacklist, auditLog, stdout, id, op, ret>>

\* A call of ChallengesFor.
RunChallengesFor(p, ident) ==
    /\ calls[p].pc = "idle"
    /\ calls' = [calls EXCEPT ![p] =
           Returning([calls[p] EXCEPT !.fn = "ChallengesFor", !.arg = ident],
                     [err |-> nil, val |-> ChallengesFor(ident)])]
    /\ UNCHANGED <<PublicSuffixList, Blacklist, auditLog, stdout, id, op, ret>>

\* One iteration of the loop of suffixMatch: the index expression on the map
\* and what follows it up to the caller's next shared access.
MatchStep(p) ==
    /\ calls[p].pc = "match"
    /\ LET c == calls[p]
           onBlacklist == c.stage = "wti_bl"
           suffixSet == IF onBlacklist THEN Blacklist ELSE PublicSuffixList
           properSuffix == ~onBlacklist
           domain == Join(SliceFrom(c.labels, c.i), ".")
       IN  /\ calls' = [calls EXCEPT ![p] =
                  IF MapIndex(suffixSet, domain)
                  THEN AfterMatch(c, ~properSuffix \/ c.i > 0)
                  ELSE IF c.i + 1 >= Len(c.labels) THEN AfterMatch(c, FALSE)
                  ELSE [c EXCEPT !.i = c.i + 1]]
           /\ Blacklist' = IF onBlacklist THEN TableAfterIndex(Blacklist, domain)
                           ELSE Blacklist
           /\ PublicSuffixList' = IF onBlacklist THEN PublicSuffixList
                                  ELSE TableAfterIndex(PublicSuffixList, domain)
    /\ UNCHANGED <<auditLog, stdout, id, op, ret>>

\* The head of the loop of PSLPlusOne, its fmt.Println and the entry into
\* suffixMatch(labels[i:], ...).
ScanStep(p) ==
    /\ calls[p].pc = "scan"
    /\ LET c == calls[p]
       IN  IF ~scanContinues(c.scan)
           THEN /\ calls' = [calls EXCEPT ![p] =
                       Returning(c, [err |-> ErrUnreachable, val |-> <<>>])]
                /\ stdout' = stdout
           ELSE /\ Len(stdout) < MaxStdout
                /\ stdout' = Append(stdout, PrintLine(c.scan))
                /\ calls' = [calls EXCEPT ![p] =
                       Matching(c, "ppo_scan", SliceFrom(c.whole, c.scan))]
    /\ UNCHANGED <<PublicSuffixList, Blacklist, auditLog, id, op, ret>>

\* The call returns; its caller may call again.
Return(p) ==
    /\ calls[p].pc = "done"
    /\ calls' = [calls EXCEPT ![p] = Idle]
    /\ UNCHANGED <<PublicSuffixList, Blacklist, auditLog, stdout, id, op, ret>>

ConcInit ==
    /\ PublicSuffixList \in Tables
    /\ Blacklist \in Tables
    /\ auditLog = <<"Policy Authority Starting">>
    /\ stdout = <<>>
    /\ id = [Type |-> "none", Value |-> <<>>]
    /\ op = "none"
    /\ ret = NoCall
    /\ calls = [p \in Procs |-> Idle]

ConcNext ==
    \E p \in Procs :
        \/ \E ident \in ConcIdentifiers : BeginWillingToIssue(p, ident)
        \/ \E ident \in ConcIdentifiers : BeginPSLPlusOne(p, ident)
        \/ \E ident \in ConcIdentifiers : RunChallengesFor(p, ident)
        \/ MatchStep(p)
        \/ ScanStep(p)
        \/ Return(p)

ConcSpec == ConcInit /\ [][ConcNext]_vars

\* What the call of c returns when it runs alone on the tables.
Alone(c) ==
    CASE c.fn = "WillingToIssue" ->
            [err |-> WillingToIssue(PublicSuffixList, Blacklist, c.arg), val |-> <<>>]
      [] c.fn = "PSLPlusOne" ->
            [err |-> PSLPlusOne(PublicSuffixList, c.arg.Value).err,
             val |-> PSLPlusOne(PublicSuffixList, c.arg.Value).val]
      [] c.fn = "ChallengesFor" ->
            [err |-> nil, val |-> ChallengesFor(c.arg)]

\* C9: no step of a call writes to the Public Suffix Set or the Blacklist,
\* and under every interleaving a call returns what it returns when it runs
\* alone on the same tables.
C9_CallsAreIndependent ==
    [][ /\ PublicSuffixList' = PublicSuffixList
        /\ Blacklist' = Blacklist
        /\ \A p \in Procs :
              calls'[p].pc = "done" => calls'[p].ret = Alone(calls'[p]) ]_vars

\* PSLPlusOne has returned a registrable domain while a call of
\* WillingToIssue by the other caller is inside suffixMatch on the Blacklist.
C9_Witness ==
    /\ calls[1].pc = "done"
    /\ calls[1].fn = "PSLPlusOne"
    /\ calls[1].ret.err = nil
    /\ calls[2].pc = "match"
    /\ calls[2].fn = "WillingToIssue"
    /\ calls[2].stage = "wti_bl"
    /\ stdout # <<>>

====
